---------------------------- MODULE Spec2Model ----------------------------
(***************************************************************************)
(* A model of rag-bot (package rag_maker): the /ask handler of service.py  *)
(* (answer text extraction, grounding-chunk loop, per-call metadata cache, *)
(* snippet truncation, citation de-duplication), the ingestion path of     *)
(* file_search.py (upload_files and the wait_until_ready polling loop),    *)
(* the manager's store management, status fetch and metadata lookup, and   *)
(* the operation normalizer of service.py (_coalesce,                      *)
(* _serialize_operation).                                                  *)
(*                                                                         *)
(* Python strings are sequences of one-character strings, so that split,   *)
(* slice, rstrip and len are computed as the code computes them.  Python's *)
(* None is the value None below, which is no string of characters.         *)
(***************************************************************************)
EXTENDS Integers, Sequences, FiniteSets, TLC

VARIABLES
    \* ---- /ask handler (service.py, ask) ----
    response,      \* the raw answer: top-level text and the first candidate's parts
    grounding,     \* the first candidate's grounding metadata (or absent)
    pcA,           \* position of the handler
    answer,        \* local `text`
    chunkIdx,      \* index of the next chunk of the for loop
    doc_meta_cache,\* local dict document_path -> metadata
    seen_citations,\* local set of dedupe keys
    citations,     \* local list of emitted citations
    lookupLog,     \* history: the document paths get_document_metadata was called with
    processed,     \* history: what each loop iteration computed
    \* ---- ingestion (file_search.py, upload_files / wait_until_ready) ----
    nDocs,         \* number of paths of the batch
    wait,          \* the wait argument
    pcU,           \* position of upload_files / the poller
    docIdx,        \* index of the document being uploaded or polled
    backend,       \* the backend's state of each document's operation
    uploaded,      \* local list `uploaded`
    current,       \* the poller's local `current`
    fetches,       \* history: status fetches issued per document
    slept,         \* history: seconds waited per document
    notDone,       \* history: done-falsy observations per document
    terminal,      \* history: how each document's poller ended
    cancelled,     \* an external cancellation signal has arrived
    \* ---- single calls of the manager and of the normalizer ----
    req,           \* the call under way: its name, arguments and environment
    pcM,           \* position of the call
    ret,           \* what the call returned or raised
    apiLog         \* history: the requests the call sent to the backend

askVars == <<response, grounding, pcA, answer, chunkIdx, doc_meta_cache,
             seen_citations, citations, lookupLog, processed>>
upVars == <<nDocs, wait, pcU, docIdx, backend, uploaded, current, fetches,
            slept, notDone, terminal, cancelled>>
mgrVars == <<req, pcM, ret, apiLog>>
vars == <<askVars, upVars, mgrVars>>

---------------------------------------------------------------------------
(* Bounds of the model. *)
MaxChunks == 3
MaxParts == 2
MaxDocs == 2
MaxCount == 3
MaxStores == 2
MaxKeys == 2

---------------------------------------------------------------------------
(* Python values.                                                          *)

None == <<"None">>

S(c) == <<c>>

\* truthiness of an optional string: neither None nor ""
Truthy(s) == s # None /\ s # <<>>

\* a or b
Or(a, b) == IF Truthy(a) THEN a ELSE b

\* str.isspace of one character, as str.rstrip() without arguments uses it
IsSpace(c) == c \in {" ", "\t", "\n"}

RECURSIVE rstrip(_)
rstrip(s) ==
    IF s = <<>> THEN s
    ELSE IF IsSpace(s[Len(s)]) THEN rstrip(SubSeq(s, 1, Len(s) - 1))
    ELSE s

\* s[:n]
Prefix(s, n) == SubSeq(s, 1, IF Len(s) < n THEN Len(s) ELSE n)

\* s.split("#", 1)[0]
RECURSIVE SplitHash(_)
SplitHash(s) ==
    IF s = <<>> THEN <<>>
    ELSE IF Head(s) = "#" THEN <<>>
    ELSE <<Head(s)>> \o SplitHash(Tail(s))

\* n copies of the character c
Rep(c, n) == [i \in 1..n |-> c]


---------------------------------------------------------------------------
(* The raw answer of the backend, as the /ask handler reads it.            *)

\* A content part: attribute-shaped (an SDK Part) or a mapping.
Part(shape, text) == [shape |-> shape, text |-> text]

\* getattr(part, "text", None): a mapping has no attribute "text"
GetattrText(part) == IF part.shape = "obj" THEN part.text ELSE None

\* str(part): the printed form of the part, never empty and no part's text
StrOf(part) ==
    <<"P", "a", "r", "t", "(">>
        \o (IF part.text = None THEN <<"N">> ELSE part.text) \o <<")">>

\* text = getattr(response, "text", None); if not text: parts = ...;
\* if parts: text = getattr(parts[0], "text", None) or str(parts[0])
ExtractText(resp) ==
    IF Truthy(resp.text) THEN resp.text
    ELSE IF resp.parts # <<>>
         THEN Or(GetattrText(resp.parts[1]), StrOf(resp.parts[1]))
         ELSE resp.text

---------------------------------------------------------------------------
(* Grounding chunks and the citation built from one of them.               *)

SNIPPET_LIMIT == 500
SNIPPET_KEEP == 497
Ellipsis == <<".", ".", ".">>

NoSegment == [present |-> FALSE, title |-> None, text |-> None,
              snippet |-> None, uri |-> None]
NoContext == [present |-> FALSE, text |-> None, title |-> None, uri |-> None]

\* chunk_dict: the chunk itself when it is a mapping, else the mapping the
\* handler builds from its attributes
ChunkDict(chunk) ==
    IF chunk.shape = "dict" THEN chunk
    ELSE [chunk EXCEPT !.chunk_reference = Or(chunk.chunk_reference, chunk.id),
                       !.title = Or(chunk.title, chunk.display_name)]

\* chunk_ref = chunk_dict.get("chunk_reference") or chunk_dict.get("id")
ChunkRef(cd) == Or(cd.chunk_reference, cd.id)

\* snippet: chunk-level, else segment snippet or text, else context text
ResolveSnippet(cd) ==
    LET s0 == cd.snippet
        s1 == IF ~Truthy(s0) /\ cd.segment.present
              THEN Or(cd.segment.snippet, cd.segment.text) ELSE s0
    IN  IF ~Truthy(s1) /\ cd.retrieved_context.present
        THEN cd.retrieved_context.text ELSE s1

\* a truncation that keeps trailing whitespace
TruncateNoStrip(snippet) ==
    IF Truthy(snippet) /\ Len(snippet) > SNIPPET_LIMIT
    THEN Prefix(snippet, SNIPPET_KEEP) \o Ellipsis
    ELSE snippet

\* if snippet and len(snippet) > 500: snippet = snippet[:497].rstrip() + "..."
TruncateSnippet(snippet) ==
    IF Truthy(snippet) /\ Len(snippet) > SNIPPET_LIMIT
    THEN rstrip(Prefix(snippet, SNIPPET_KEEP)) \o Ellipsis
    ELSE snippet

\* chunk_title and uri
ChunkTitle(cd) ==
    Or(Or(Or(cd.title, cd.display_name), cd.segment.title),
       cd.retrieved_context.title)
ChunkUri(cd) == Or(Or(cd.uri, cd.segment.uri), cd.retrieved_context.uri)

\* document_path = chunk_ref.split("#", 1)[0] if chunk_ref else None
DocumentPath(chunk_ref) ==
    IF Truthy(chunk_ref) THEN SplitHash(chunk_ref) ELSE None

---------------------------------------------------------------------------
(* Document metadata and the per-call cache.                               *)

Meta(shape, displayName, title, uri, error) ==
    [shape |-> shape, displayName |-> displayName, title |-> title,
     uri |-> uri, error |-> error]

MetaNone == Meta("none", None, None, None, None)

\* a handler that caches an empty mapping for a failed lookup
ErrorPlaceholderEmpty(msg) == Meta("dict", None, None, None, None)

\* {"error": str(meta_exc)}
ErrorPlaceholder(msg) == Meta("dict", None, None, None, msg)

\* What one call of manager.get_document_metadata(document_path) can do for
\* the handler: return the SDK's document object, return the REST JSON
\* mapping the handler is written for, or raise.  (The method itself is
\* taken step by step further down, where its REST fallback cannot return.)
get_document_metadata ==
    { [raised |-> FALSE, msg |-> None,
       value |-> Meta("obj", S("D"), None, S("u"), None)],
      [raised |-> FALSE, msg |-> None,
       value |-> Meta("dict", S("D"), None, S("u"), None)],
      [raised |-> FALSE, msg |-> None,
       value |-> Meta("dict", None, S("T"), None, None)],
      [raised |-> TRUE, msg |-> S("E"), value |-> MetaNone] }

\* no call was made
NoCall == [raised |-> FALSE, msg |-> None, value |-> MetaNone]

IsError(meta) == meta.shape = "dict" /\ meta.error # None

\* a cache that is consulted only for successful lookups
NeedsLookupRetryErrors(path, cache) ==
    Truthy(path) /\ (path \notin DOMAIN cache \/ IsError(cache[path]))

\* if document_path and document_path not in doc_meta_cache
NeedsLookup(path, cache) == Truthy(path) /\ path \notin DOMAIN cache

\* doc_meta_cache[document_path] = ...
CachePut(cache, path, meta) ==
    [p \in DOMAIN cache \cup {path} |-> IF p = path THEN meta ELSE cache[p]]

\* meta = doc_meta_cache.get(document_path) if document_path else None
CachedMeta(cache, path) ==
    IF Truthy(path) /\ path \in DOMAIN cache THEN cache[path] ELSE MetaNone

\* document_display_name, document_uri, document_error
DocumentDisplayName(meta, rc) ==
    IF meta.shape = "dict" THEN Or(meta.displayName, meta.title) ELSE rc.title
DocumentUri(meta, rc) == IF meta.shape = "dict" THEN meta.uri ELSE rc.uri
DocumentError(meta) == IF meta.shape = "dict" THEN meta.error ELSE None

\* a key that leaves the snippet out
DedupeKeyNoSnippet(document_path, snippet, document_display_name) ==
    <<document_path, document_display_name>>

\* dedupe_key = (document_path, snippet, document_display_name)
DedupeKey(document_path, snippet, document_display_name) ==
    <<document_path, snippet, document_display_name>>

\* the citation dict appended for a chunk
Citation(cd, snippet, meta) ==
    LET chunk_ref == ChunkRef(cd)
        document_uri == DocumentUri(meta, cd.retrieved_context)
    IN  [id |-> Or(chunk_ref, cd.id),
         title |-> ChunkTitle(cd),
         uri |-> Or(ChunkUri(cd), document_uri),
         snippet |-> snippet,
         chunk_reference |-> chunk_ref,
         document_path |-> DocumentPath(chunk_ref),
         document_display_name |->
             DocumentDisplayName(meta, cd.retrieved_context),
         document_uri |-> document_uri,
         document_error |-> DocumentError(meta)]


---------------------------------------------------------------------------
(* Inputs of the /ask handler.                                             *)

SeqsUpTo(T, n) == UNION { [1..k -> T] : k \in 0..n }

PartSet ==
    { Part("obj", None), Part("obj", <<>>), Part("obj", S("p")),
      Part("obj", S("q")), Part("dict", S("p")) }

Response(text, parts) == [text |-> text, parts |-> parts]

\* every raw answer: top-level text absent, empty or present, any parts
ResponseSet ==
    { Response(t, ps) : t \in {None, <<>>, S("A")},
                        ps \in SeqsUpTo(PartSet, MaxParts) }

\* the raw answers used while the chunk loop is explored
CitationResponses == { Response(S("A"), <<>>), Response(None, <<>>) }

Segment(title, text, snippet, uri) ==
    [present |-> TRUE, title |-> title, text |-> text, snippet |-> snippet,
     uri |-> uri]
Context(text, title, uri) ==
    [present |-> TRUE, text |-> text, title |-> title, uri |-> uri]

Chunk(shape, chunk_reference, id, snippet, segment, retrieved_context) ==
    [shape |-> shape, chunk_reference |-> chunk_reference, id |-> id,
     title |-> None, display_name |-> None, uri |-> None,
     snippet |-> snippet, segment |-> segment,
     retrieved_context |-> retrieved_context]

\* raw snippets around the truncation limit: 600 characters with whitespace
\* where the cut falls, 501 characters without, and 500 characters
LongWs == Rep("x", 495) \o Rep(" ", 2) \o Rep("x", 103)
Long501 == Rep("x", 501)
Exact500 == Rep("x", 499) \o <<" ">>

ChunkSet ==
    { Chunk("dict", S("a"), None, S("s"), NoSegment, NoContext),
      Chunk("obj", None, <<"a", "#", "x">>, S("s"), NoSegment,
            Context(S("r"), S("t"), S("v"))),
      Chunk("dict", <<"#", "x">>, None, S("s"), NoSegment, NoContext),
      Chunk("dict", S("b"), None, LongWs, NoSegment, NoContext),
      Chunk("obj", None, None, None,
            Segment(None, Exact500, None, None), NoContext),
      Chunk("dict", S("a"), None, None, NoSegment,
            Context(Long501, S("t"), None)) }

Grounding(chunks) == [present |-> TRUE, chunks |-> chunks]
NoGrounding == [present |-> FALSE, chunks |-> <<>>]

GroundingSet ==
    {NoGrounding} \cup { Grounding(cs) : cs \in SeqsUpTo(ChunkSet, MaxChunks) }

\* the groundings used while the answer text is explored
AnswerGroundings ==
    { NoGrounding, Grounding(<<>>),
      Grounding(<<Chunk("dict", S("a"), None, S("s"), NoSegment, NoContext)>>) }

---------------------------------------------------------------------------
(* Ingestion operations, as upload_files and wait_until_ready read them.   *)

POLL_SECONDS == 5

\* The error field of an operation: absent, a mapping or an object with a
\* code attribute.  nonempty is the truth value Python gives it.
Error(kind, nonempty, code) ==
    [kind |-> kind, nonempty |-> nonempty, code |-> code]

NoError == Error("none", FALSE, 0)
\* {}
EmptyMapError == Error("map", FALSE, 0)
\* {"code": 8, "message": "quota exceeded"}
MapError == Error("map", TRUE, 8)
\* an object with code = 8
ObjError == Error("obj", TRUE, 8)
\* an object with a message and code = 0
ObjErrorCode0 == Error("obj", TRUE, 0)

ErrSet == {NoError, EmptyMapError, MapError, ObjError, ObjErrorCode0}

Shapes == {"dict", "obj"}

\* an operation value: a mapping or an attribute-bearing object
Op(shape, done, error) == [shape |-> shape, done |-> done, error |-> error]

NoOp == Op("none", FALSE, NoError)

\* the backend's record of one document's operation
Absent == [status |-> "absent", error |-> NoError]
Pending == [status |-> "pending", error |-> NoError]
Finished(error) == [status |-> "done", error |-> error]

\* the operation value the backend reports for its record
Snapshot(shape, rec) == Op(shape, rec.status = "done", rec.error)

\* a loop that gives up after MaxCount observations of done falsy
IsDoneOrTimedOut(op) == op.done \/ notDone[docIdx] >= MaxCount

\* done = getattr(current, "done", None);
\* done or (isinstance(current, dict) and current.get("done"))
IsDone(op) ==
    \/ op.shape = "obj" /\ op.done
    \/ op.shape = "dict" /\ op.done

\* bool(error)
ErrTruthy(e) == e.kind # "none" /\ e.nonempty

\* getattr(error, "code", 0): a mapping has no attribute "code"
AttrCode(e) == IF e.kind = "obj" THEN e.code ELSE 0

\* lines 145-151: whether wait_until_ready raises RuntimeError
ShouldRaise(op) ==
    IF op.shape = "dict" THEN ErrTruthy(op.error)
    ELSE ErrTruthy(op.error) /\ AttrCode(op.error) # 0

\* a loop that waits and fetches before its first test
PollerEntrySleepFirst == "sleep"

\* `while True:` starts with the test of done
PollerEntry == "check"

\* history counters stop counting at MaxCount
Bump(c) == IF c < MaxCount THEN c + 1 ELSE c

---------------------------------------------------------------------------
(* The /ask handler as a state machine.                                    *)

UploadIdle ==
    /\ nDocs = 0
    /\ wait = FALSE
    /\ pcU = "idle"
    /\ docIdx = 0
    /\ backend = <<>>
    /\ uploaded = <<>>
    /\ current = NoOp
    /\ fetches = <<>>
    /\ slept = <<>>
    /\ notDone = <<>>
    /\ terminal = <<>>
    /\ cancelled = FALSE

\* no single call is under way
NoReq == [name |-> "none"]
NoRet == [kind |-> "none"]

MgrIdle ==
    /\ req = NoReq
    /\ pcM = "idle"
    /\ ret = NoRet
    /\ apiLog = <<>>

AskStart(responses, groundings) ==
    /\ response \in responses
    /\ grounding \in groundings
    /\ pcA = "start"
    /\ answer = None
    /\ chunkIdx = 1
    /\ doc_meta_cache = <<>>
    /\ seen_citations = {}
    /\ citations = <<>>
    /\ lookupLog = <<>>
    /\ processed = <<>>

\* lines 315-320 with a truthy text
AskText ==
    /\ pcA = "start"
    /\ Truthy(ExtractText(response))
    /\ answer' = ExtractText(response)
    /\ pcA' = "grounding"
    /\ UNCHANGED <<response, grounding, chunkIdx, doc_meta_cache,
                   seen_citations, citations, lookupLog, processed>>
    /\ UNCHANGED <<upVars, mgrVars>>

\* lines 321-322: raise HTTPException(status_code=502, ...)
AskNoContent ==
    /\ pcA = "start"
    /\ ~Truthy(ExtractText(response))
    /\ pcA' = "http502"
    /\ UNCHANGED <<response, grounding, answer, chunkIdx, doc_meta_cache,
                   seen_citations, citations, lookupLog, processed>>
    /\ UNCHANGED <<upVars, mgrVars>>

\* `if grounding:` is false: return with no citations
AskNoGrounding ==
    /\ pcA = "grounding"
    /\ ~grounding.present
    /\ pcA' = "done"
    /\ UNCHANGED <<response, grounding, answer, chunkIdx, doc_meta_cache,
                   seen_citations, citations, lookupLog, processed>>
    /\ UNCHANGED <<upVars, mgrVars>>

\* one iteration of `for chunk in chunks`
AskChunk ==
    /\ pcA = "grounding"
    /\ grounding.present
    /\ chunkIdx <= Len(grounding.chunks)
    /\ LET cd == ChunkDict(grounding.chunks[chunkIdx])
           document_path == DocumentPath(ChunkRef(cd))
           raw == ResolveSnippet(cd)
           snippet == TruncateSnippet(raw)
           call == NeedsLookup(document_path, doc_meta_cache)
       IN  \E out \in (IF call THEN get_document_metadata ELSE {NoCall}) :
             LET cache == IF call
                          THEN CachePut(doc_meta_cache, document_path,
                                        IF out.raised
                                        THEN ErrorPlaceholder(out.msg)
                                        ELSE out.value)
                          ELSE doc_meta_cache
                 meta == CachedMeta(cache, document_path)
                 cit == Citation(cd, snippet, meta)
                 dedupe_key == DedupeKey(document_path, snippet,
                                         cit.document_display_name)
                 dup == dedupe_key \in seen_citations
             IN  /\ doc_meta_cache' = cache
                 /\ lookupLog' = IF call THEN Append(lookupLog, document_path)
                                 ELSE lookupLog
                 /\ seen_citations' = seen_citations \cup {dedupe_key}
                 /\ citations' = IF dup THEN citations
                                 ELSE Append(citations, cit)
                 /\ processed' = Append(processed,
                        [raw |-> raw, meta |-> meta, citation |-> cit,
                         emitted |-> ~dup,
                         failure |-> IF call /\ out.raised THEN out.msg
                                     ELSE None])
    /\ chunkIdx' = chunkIdx + 1
    /\ UNCHANGED <<response, grounding, pcA, answer>>
    /\ UNCHANGED <<upVars, mgrVars>>

\* the loop is over: return AskResponse(answer=text, citations=citations)
AskReturn ==
    /\ pcA = "grounding"
    /\ grounding.present
    /\ chunkIdx > Len(grounding.chunks)
    /\ pcA' = "done"
    /\ UNCHANGED <<response, grounding, answer, chunkIdx, doc_meta_cache,
                   seen_citations, citations, lookupLog, processed>>
    /\ UNCHANGED <<upVars, mgrVars>>

AskNext == AskText \/ AskNoContent \/ AskNoGrounding \/ AskChunk \/ AskReturn

\* the chunk loop over every grounding
Init == AskStart(CitationResponses, GroundingSet) /\ UploadIdle /\ MgrIdle
Spec == Init /\ [][AskNext]_vars

\* the answer text over every raw answer
InitAnswer == AskStart(ResponseSet, AnswerGroundings) /\ UploadIdle /\ MgrIdle
SpecAnswer == InitAnswer /\ [][AskNext]_vars

---------------------------------------------------------------------------
(* Properties of the /ask handler.                                         *)

Count(seq, x) == Cardinality({ i \in DOMAIN seq : seq[i] = x })

PathOf(i) == processed[i].citation.document_path

\* C1 (as stated): within one call, get_document_metadata is invoked exactly
\* once for each distinct non-null document_path of the chunks processed so
\* far, never twice for the same path.
C1_LookupOncePerNonNullPath ==
    \A i \in DOMAIN processed :
        PathOf(i) # None => Count(lookupLog, PathOf(i)) = 1

\* C1 (amended): the lookup is invoked exactly once for each distinct
\* document_path that is neither null nor empty and never for a null or
\* empty one; no path is looked up twice, also after a failed lookup; and
\* all chunks of one path observe the same cached result, error placeholder
\* included.
C1_LookupOncePerNonEmptyPath ==
    /\ \A k \in DOMAIN lookupLog : Count(lookupLog, lookupLog[k]) = 1
    /\ \A i \in DOMAIN processed :
           Count(lookupLog, PathOf(i)) = (IF Truthy(PathOf(i)) THEN 1 ELSE 0)
    /\ \A i, j \in DOMAIN processed :
           (Truthy(PathOf(i)) /\ PathOf(i) = PathOf(j))
               => processed[i].meta = processed[j].meta

\* three chunks of one document whose first lookup failed
C1_Witness ==
    /\ Len(processed) = 3
    /\ Truthy(PathOf(1))
    /\ PathOf(2) = PathOf(1)
    /\ PathOf(3) = PathOf(1)
    /\ IsError(processed[1].meta)

KeyOf(c) == <<c.document_path, c.snippet, c.document_display_name>>

\* the chunks whose key no earlier chunk has
FirstSeen ==
    { i \in DOMAIN processed :
        \A j \in 1..(i - 1) :
            KeyOf(processed[j].citation) # KeyOf(processed[i].citation) }

\* the k-th of them in chunk order
NthFirstSeen(k) ==
    CHOOSE i \in FirstSeen : Cardinality({ j \in FirstSeen : j <= i }) = k

\* C2: the citation list is the sequence of processed chunks reduced to the
\* first occurrence of each key (document_path, snippet,
\* document_display_name), in chunk order; no two citations share a key.
C2_CitationsAreFirstOccurrences ==
    /\ Len(citations) = Cardinality(FirstSeen)
    /\ \A k \in DOMAIN citations :
           citations[k] = processed[NthFirstSeen(k)].citation
    /\ \A k, m \in DOMAIN citations :
           KeyOf(citations[k]) = KeyOf(citations[m]) => k = m

\* a duplicate of the first chunk arrives after a different chunk of the
\* same document
C2_Witness ==
    /\ pcA = "done"
    /\ Len(processed) = 3
    /\ Len(citations) = 2
    /\ KeyOf(processed[3].citation) = KeyOf(processed[1].citation)
    /\ KeyOf(processed[2].citation) # KeyOf(processed[1].citation)
    /\ PathOf(2) = PathOf(1)

TextBearing(part) == Truthy(part.text)

NoTextAnywhere(resp) ==
    /\ ~Truthy(resp.text)
    /\ \A i \in DOMAIN resp.parts : ~TextBearing(resp.parts[i])

\* C8: a raw answer with no top-level text and no content part with text
\* ends in HTTP 502 "No content in response." and never in an answer.
C8_NoTextEndsInNoContent ==
    (pcA # "start" /\ NoTextAnywhere(response)) => pcA = "http502"

FirstTextBearing(parts) ==
    CHOOSE i \in DOMAIN parts :
        TextBearing(parts[i]) /\ \A j \in 1..(i - 1) : ~TextBearing(parts[j])

\* C9: with no top-level text, the answer is the text of the earliest part
\* whose text is present and non-empty, whatever its index.
C9_AnswerIsFirstTextBearingPart ==
    (/\ pcA # "start"
     /\ ~Truthy(response.text)
     /\ \E i \in DOMAIN response.parts : TextBearing(response.parts[i]))
        => (/\ pcA # "http502"
            /\ answer = response.parts[FirstTextBearing(response.parts)].text)

\* C10 (as stated): a raw snippet longer than 500 characters is emitted as
\* its first 497 characters followed by "...", 500 characters in all; one
\* of at most 500 characters is emitted unchanged.
C10_TruncatedToExactly500 ==
    \A i \in DOMAIN processed :
        LET raw == processed[i].raw
            out == processed[i].citation.snippet
        IN  IF Truthy(raw) /\ Len(raw) > 500
            THEN out = SubSeq(raw, 1, 497) \o <<".", ".", ".">> /\ Len(out) = 500
            ELSE out = raw

\* C10 (amended): a raw snippet longer than 500 characters is emitted as its
\* first 497 characters with their trailing whitespace removed, followed by
\* "...": at most 500 characters, and exactly 500 when the 497th character
\* is not whitespace.  One of at most 500 characters is emitted unchanged.
C10_TruncatedStrippedAtMost500 ==
    \A i \in DOMAIN processed :
        LET raw == processed[i].raw
            out == processed[i].citation.snippet
            k == Len(out) - 3
        IN  IF Truthy(raw) /\ Len(raw) > 500
            THEN /\ 0 <= k /\ k <= 497
                 /\ out = SubSeq(raw, 1, k) \o <<".", ".", ".">>
                 /\ k = 0 \/ ~IsSpace(raw[k])
                 /\ \A j \in (k + 1)..497 : IsSpace(raw[j])
                 /\ Len(out) <= 500
                 /\ (Len(out) = 500) <=> ~IsSpace(raw[497])
            ELSE out = raw

\* a long snippet whose 497th character is whitespace has been emitted
C10_Witness ==
    \E i \in DOMAIN processed :
        /\ Len(processed[i].raw) > 500
        /\ IsSpace(processed[i].raw[497])
        /\ processed[i].emitted
        /\ Len(processed[i].citation.snippet) < 500

\* C11: a metadata lookup that raises for one chunk is not fatal: the
\* handler goes on and returns the answer with every chunk of the grounding
\* processed; every citation whose document_path is the failed path carries
\* the failure in document_error; and every processed chunk, before or after
\* the failure, is in the citation list, itself or as the earlier chunk of
\* the same key.
C11_FailedLookupIsNonFatal ==
    /\ processed # <<>> => pcA \in {"grounding", "done"}
    /\ (pcA = "done" /\ grounding.present)
           => (/\ Len(processed) = Len(grounding.chunks)
               /\ answer = ExtractText(response))
    /\ \A i \in DOMAIN processed :
           processed[i].failure # None
               => \A k \in DOMAIN citations :
                      citations[k].document_path = PathOf(i)
                          => citations[k].document_error = processed[i].failure
    /\ \A i \in DOMAIN processed :
           \E k \in DOMAIN citations :
               KeyOf(citations[k]) = KeyOf(processed[i].citation)

\* the lookup of the second of three chunks failed, the chunks before and
\* after it belong to another document, and all three are cited
C11_Witness ==
    /\ pcA = "done"
    /\ Len(processed) = 3
    /\ processed[2].failure # None
    /\ Truthy(PathOf(1)) /\ PathOf(1) # PathOf(2) /\ PathOf(3) = PathOf(1)
    /\ processed[1].failure = None
    /\ Len(citations) = 3
    /\ citations[2].document_error = processed[2].failure
    /\ citations[3].document_error = None

\* C12: for every chunk with a document_path, document_display_name and
\* document_uri are those of the cached metadata whenever the lookup
\* succeeded, for metadata of either shape, and those of the chunk's
\* retrieved_context exactly when the cached metadata is an error placeholder
\* or there is none.
C12_MetadataWhenLookupSucceeded ==
    \A i \in DOMAIN processed :
        LET meta == processed[i].meta
            rc == ChunkDict(grounding.chunks[i]).retrieved_context
            cit == processed[i].citation
        IN  PathOf(i) # None =>
                IF meta.shape # "none" /\ ~IsError(meta)
                THEN /\ cit.document_display_name =
                            Or(meta.displayName, meta.title)
                     /\ cit.document_uri = meta.uri
                ELSE /\ cit.document_display_name = rc.title
                     /\ cit.document_uri = rc.uri

---------------------------------------------------------------------------
(* upload_files and wait_until_ready as a state machine.                   *)

Docs == 1..nDocs

AskIdle ==
    /\ response = Response(None, <<>>)
    /\ grounding = NoGrounding
    /\ pcA = "idle"
    /\ answer = None
    /\ chunkIdx = 1
    /\ doc_meta_cache = <<>>
    /\ seen_citations = {}
    /\ citations = <<>>
    /\ lookupLog = <<>>
    /\ processed = <<>>

\* upload_files is entered with a batch of paths; the loop over the paths
\* is about to start
UploadStart ==
    /\ nDocs \in 1..MaxDocs
    /\ wait \in BOOLEAN
    /\ pcU = "upload"
    /\ docIdx = 1
    /\ backend = [i \in 1..nDocs |-> Absent]
    /\ uploaded = <<>>
    /\ current = NoOp
    /\ fetches = [i \in 1..nDocs |-> 0]
    /\ slept = [i \in 1..nDocs |-> 0]
    /\ notDone = [i \in 1..nDocs |-> 0]
    /\ terminal = [i \in 1..nDocs |-> "none"]
    /\ cancelled = FALSE

\* lines 108-125: upload one path; the backend returns its operation, which
\* may already be done
UploadOne ==
    /\ pcU = "upload"
    /\ docIdx <= nDocs
    /\ \E shape \in Shapes, rec \in {Pending} \cup { Finished(e) : e \in ErrSet } :
          /\ backend' = [backend EXCEPT ![docIdx] = rec]
          /\ uploaded' = Append(uploaded, Snapshot(shape, rec))
    /\ docIdx' = docIdx + 1
    /\ UNCHANGED <<nDocs, wait, pcU, current, fetches, slept, notDone,
                   terminal, cancelled>>
    /\ UNCHANGED <<askVars, mgrVars>>

\* lines 127, 131: wait is false, return the operations as uploaded
UploadReturnNoWait ==
    /\ pcU = "upload"
    /\ docIdx > nDocs
    /\ ~wait
    /\ pcU' = "returned"
    /\ UNCHANGED <<nDocs, wait, docIdx, backend, uploaded, current, fetches,
                   slept, notDone, terminal, cancelled>>
    /\ UNCHANGED <<askVars, mgrVars>>

\* lines 127-129, 134: wait_until_ready(uploaded[0]) is entered
UploadBeginWait ==
    /\ pcU = "upload"
    /\ docIdx > nDocs
    /\ wait
    /\ pcU' = PollerEntry
    /\ docIdx' = 1
    /\ current' = uploaded[1]
    /\ UNCHANGED <<nDocs, wait, backend, uploaded, fetches, slept, notDone,
                   terminal, cancelled>>
    /\ UNCHANGED <<askVars, mgrVars>>

\* lines 136-138 with done falsy: go on to the sleep
PollNotDone ==
    /\ pcU = "check"
    /\ ~IsDone(current)
    /\ notDone' = [notDone EXCEPT ![docIdx] = Bump(@)]
    /\ pcU' = "sleep"
    /\ UNCHANGED <<nDocs, wait, docIdx, backend, uploaded, current, fetches,
                   slept, terminal, cancelled>>
    /\ UNCHANGED <<askVars, mgrVars>>

\* lines 136-138 with done truthy: break
PollDone ==
    /\ pcU = "check"
    /\ IsDone(current)
    /\ pcU' = "verify"
    /\ UNCHANGED <<nDocs, wait, docIdx, backend, uploaded, current, fetches,
                   slept, notDone, terminal, cancelled>>
    /\ UNCHANGED <<askVars, mgrVars>>

\* line 139: time.sleep(POLL_SECONDS)
PollSleep ==
    /\ pcU = "sleep"
    /\ slept' = [slept EXCEPT
                   ![docIdx] = IF @ < MaxCount * POLL_SECONDS
                               THEN @ + POLL_SECONDS ELSE @]
    /\ pcU' = "fetch"
    /\ UNCHANGED <<nDocs, wait, docIdx, backend, uploaded, current, fetches,
                   notDone, terminal, cancelled>>
    /\ UNCHANGED <<askVars, mgrVars>>

\* lines 140-143: current = operations.get(current)
PollFetch ==
    /\ pcU = "fetch"
    /\ current' = Snapshot(current.shape, backend[docIdx])
    /\ fetches' = [fetches EXCEPT ![docIdx] = Bump(@)]
    /\ pcU' = "check"
    /\ UNCHANGED <<nDocs, wait, docIdx, backend, uploaded, slept, notDone,
                   terminal, cancelled>>
    /\ UNCHANGED <<askVars, mgrVars>>

\* lines 145-151: raise RuntimeError, which leaves upload_files too
PollFail ==
    /\ pcU = "verify"
    /\ ShouldRaise(current)
    /\ terminal' = [terminal EXCEPT ![docIdx] = "failed"]
    /\ pcU' = "raised"
    /\ UNCHANGED <<nDocs, wait, docIdx, backend, uploaded, current, fetches,
                   slept, notDone, cancelled>>
    /\ UNCHANGED <<askVars, mgrVars>>

\* line 153 and lines 128-131: return current into uploaded[idx], then poll
\* the next operation or return the list
PollComplete ==
    /\ pcU = "verify"
    /\ ~ShouldRaise(current)
    /\ terminal' = [terminal EXCEPT ![docIdx] = "completed"]
    /\ uploaded' = [uploaded EXCEPT ![docIdx] = current]
    /\ IF docIdx < nDocs
       THEN /\ docIdx' = docIdx + 1
            /\ current' = uploaded[docIdx + 1]
            /\ pcU' = PollerEntry
       ELSE /\ pcU' = "returned"
            /\ UNCHANGED <<docIdx, current>>
    /\ UNCHANGED <<nDocs, wait, backend, fetches, slept, notDone, cancelled>>
    /\ UNCHANGED <<askVars, mgrVars>>

\* the backend finishes a pending operation, with or without an error
BackendFinish ==
    /\ \E i \in Docs, e \in ErrSet :
          /\ backend[i].status = "pending"
          /\ backend' = [backend EXCEPT ![i] = Finished(e)]
    /\ UNCHANGED <<nDocs, wait, pcU, docIdx, uploaded, current, fetches,
                   slept, notDone, terminal, cancelled>>
    /\ UNCHANGED <<askVars, mgrVars>>

\* the caller gives up on the upload (disconnect, deadline) while it runs
CancelSignal ==
    /\ ~cancelled
    /\ pcU \notin {"returned", "raised"}
    /\ cancelled' = TRUE
    /\ UNCHANGED <<nDocs, wait, pcU, docIdx, backend, uploaded, current,
                   fetches, slept, notDone, terminal>>
    /\ UNCHANGED <<askVars, mgrVars>>

\* the steps of the program itself
UploadStep ==
    \/ UploadOne
    \/ UploadReturnNoWait
    \/ UploadBeginWait
    \/ PollNotDone
    \/ PollDone
    \/ PollSleep
    \/ PollFetch
    \/ PollFail
    \/ PollComplete

UploadNext == UploadStep \/ BackendFinish \/ CancelSignal

InitUpload == UploadStart /\ AskIdle /\ MgrIdle
SpecUpload == InitUpload /\ [][UploadNext]_vars

\* the program's single thread keeps running; the backend and the caller
\* owe nothing
FairUpload == InitUpload /\ [][UploadNext]_vars /\ WF_vars(UploadStep)

---------------------------------------------------------------------------
(* Properties of upload_files and wait_until_ready.                        *)

\* the poller of document i is between a done-falsy observation and the
\* fetch that follows it
Waiting(i) == docIdx = i /\ pcU = "sleep"
Fetching(i) == docIdx = i /\ pcU = "fetch"

\* C3: a status fetch is issued only after done was observed falsy and one
\* interval of POLL_SECONDS was waited, one wait and one fetch per falsy
\* observation; with done observed truthy nothing more is fetched, so the
\* fetches of a document equal its not-done observations (none for an
\* operation done on entry).  Counted while the history counters run.
C3_OneWaitThenFetchPerNotDone ==
    \A i \in Docs :
        notDone[i] < MaxCount =>
            /\ fetches[i] =
                   notDone[i] - (IF Waiting(i) \/ Fetching(i) THEN 1 ELSE 0)
            /\ slept[i] =
                   POLL_SECONDS * (notDone[i] - (IF Waiting(i) THEN 1 ELSE 0))
            /\ (terminal[i] # "none" \/ (docIdx = i /\ pcU = "verify"))
                   => fetches[i] = notDone[i]

\* one document took two wait-then-fetch cycles, the next was done on entry
C3_Witness ==
    /\ nDocs = 2
    /\ pcU = "returned"
    /\ notDone[1] = 2 /\ fetches[1] = 2 /\ slept[1] = 2 * POLL_SECONDS
    /\ terminal[2] = "completed" /\ notDone[2] = 0 /\ fetches[2] = 0

\* an error that is present and neither empty nor of code zero
NonTrivial(e) == e.kind # "none" /\ e.nonempty /\ e.code # 0

\* the operation value on which the poller of a terminal document ended
FinalOp(i) == IF terminal[i] = "failed" THEN current ELSE uploaded[i]

\* C4: on the first done-truthy observation the poller ends Failed whenever
\* the error is present and non-trivial, whatever the shape of the operation,
\* and never Completed for a done operation carrying such an error.
C4_DoneWithErrorEndsFailed ==
    \A i \in Docs :
        terminal[i] # "none" =>
            (NonTrivial(FinalOp(i).error) => terminal[i] = "failed")

\* C5: once a cancellation signal has arrived, no further status fetch is
\* issued.
C5_NoFetchAfterCancel ==
    [][cancelled => ~(pcU = "fetch" /\ pcU' = "check")]_vars

\* C6: with wait, a backend error on one document's operation is terminal
\* for that document only: when upload_files is over, every document of the
\* batch has been polled to its own terminal state.
C6_ErrorLocalToDocument ==
    (wait /\ pcU \in {"returned", "raised"})
        => \A i \in Docs : terminal[i] # "none"

\* C7: the pollers are independent: a document whose operation the backend
\* has finished gets its terminal state whether or not another document's
\* operation ever reports done (unless an error has ended the whole call).
C7_PollersIndependent ==
    \A i \in 1..MaxDocs :
        (/\ i \in Docs
         /\ wait
         /\ pcU \notin {"upload", "raised"}
         /\ backend[i].status = "done")
            ~> (i \notin Docs \/ terminal[i] # "none" \/ pcU = "raised")

---------------------------------------------------------------------------
(* wait_until_ready on its own: one call on one operation, which the       *)
(* backend may have finished since the operation value was made.           *)

PollerStart ==
    /\ nDocs = 1
    /\ wait = TRUE
    /\ pcU = PollerEntry
    /\ docIdx = 1
    /\ \E shape \in Shapes, rec \in {Pending} \cup { Finished(e) : e \in ErrSet } :
          /\ backend = <<rec>>
          /\ uploaded \in { <<Snapshot(shape, rec)>>, <<Snapshot(shape, Pending)>> }
    /\ current = uploaded[1]
    /\ fetches = <<0>>
    /\ slept = <<0>>
    /\ notDone = <<0>>
    /\ terminal = <<"none">>
    /\ cancelled = FALSE

\* the steps of the poller itself
PollerStep ==
    \/ PollNotDone
    \/ PollDone
    \/ PollSleep
    \/ PollFetch
    \/ PollFail
    \/ PollComplete

PollerNext == PollerStep \/ BackendFinish \/ CancelSignal

InitPoller == PollerStart /\ AskIdle /\ MgrIdle
\* the thread that runs the poller keeps running; the backend owes nothing
FairPoller == InitPoller /\ [][PollerNext]_vars /\ WF_vars(PollerStep)

\* the poller of document i has just read the operation's done field
Observing(i) == i \in Docs /\ docIdx = i /\ pcU = "check"

\* C15: the polling loop has no timeout and no retry cap.  A poller ends
\* (Completed or Failed) only on an operation it observed done, and
\* upload_files with wait returns only with every poller Completed; an
\* observation of done leads to the poller's terminal state; and an
\* observation of not done, however many came before, leads to another
\* wait and another fetch.
C15_PollsUntilDone ==
    /\ [](\A i \in Docs : terminal[i] # "none" => FinalOp(i).done)
    /\ []((wait /\ pcU = "returned")
             => \A i \in Docs : terminal[i] = "completed")
    /\ \A i \in 1..MaxDocs :
           /\ (Observing(i) /\ current.done)
                  ~> (i \notin Docs \/ terminal[i] # "none")
           /\ (Observing(i) /\ ~current.done)
                  ~> (i \in Docs /\ docIdx = i /\ pcU = "fetch")

\* a poller that has seen MaxCount observations of not done and as many
\* fetches is looking at one more operation that is not done
C15_Witness ==
    /\ Observing(1)
    /\ ~current.done
    /\ notDone[1] = MaxCount
    /\ fetches[1] = MaxCount
    /\ slept[1] = MaxCount * POLL_SECONDS
    /\ terminal[1] = "none"

---------------------------------------------------------------------------
(* Single calls of FileSearchManager: get_operation_status and             *)
(* get_document_metadata, one step per call of the SDK.                    *)

\* what a call of a method ends with
Returned(v) == [kind |-> "returned", exc |-> "none", value |-> v]
Raised(e) == [kind |-> "raised", exc |-> e, value |-> None]

\* One call of an SDK method ends in one of three ways: it returns, it
\* rejects the shape of its argument (AttributeError), or the request fails
\* (any other exception).
SdkOutcomes == {"ok", "AttributeError", "Exception"}

\* an entry of apiLog
Attempt(api, how, outcome) == [api |-> api, how |-> how, outcome |-> outcome]

\* the operations the backend can report
OperationSet ==
    { Snapshot(shape, rec) :
        shape \in Shapes, rec \in {Pending} \cup { Finished(e) : e \in ErrSet } }

\* get_operation_status(name); opsGet is
\* `self._operations_api and hasattr(self._operations_api, "get")`
StatusCalls ==
    { [name |-> "get_operation_status", arg |-> n, api |-> g] :
        n \in {S("o"), S("p")}, g \in BOOLEAN }

\* get_document_metadata(document_path); api is
\* `self._stores_api and hasattr(self._stores_api, "documents")`
LookupCalls ==
    { [name |-> "get_document_metadata", arg |-> d, api |-> g] :
        d \in {None, <<>>, S("a"), S("b")}, g \in BOOLEAN }

\* where each method starts
Entry(r) ==
    IF r.name = "get_operation_status"
    THEN (IF r.api THEN "placeholder" ELSE "client")
    ELSE (IF ~Truthy(r.arg) THEN "empty"
          ELSE IF r.api THEN "documents" ELSE "lookup_rest")

ManagerStart ==
    /\ req \in StatusCalls \cup LookupCalls
    /\ pcM = Entry(req)
    /\ ret = NoRet
    /\ apiLog = <<>>

\* lines 157-166: self._operations_api.get(operation=placeholder)
StatusPlaceholder ==
    /\ pcM = "placeholder"
    /\ \E o \in SdkOutcomes, op \in OperationSet :
          /\ apiLog' = Append(apiLog, Attempt("operations.get", "placeholder", o))
          /\ IF o = "ok"
             THEN pcM' = "done" /\ ret' = Returned(op)
             ELSE /\ pcM' = (IF o = "AttributeError" THEN "by_name" ELSE "client")
                  /\ ret' = ret
    /\ UNCHANGED <<req, askVars, upVars>>

\* lines 160-164: self._operations_api.get(operation=name); an exception
\* other than AttributeError leaves the method from inside the handler
StatusByName ==
    /\ pcM = "by_name"
    /\ \E o \in SdkOutcomes, op \in OperationSet :
          /\ apiLog' = Append(apiLog, Attempt("operations.get", "name", o))
          /\ CASE o = "ok" -> pcM' = "done" /\ ret' = Returned(op)
               [] o = "AttributeError" -> pcM' = "client" /\ ret' = ret
               [] o = "Exception" -> pcM' = "done" /\ ret' = Raised("Exception")
    /\ UNCHANGED <<req, askVars, upVars>>

\* lines 167-169: self.client.operations.get(name); without an operations
\* API that has get, the attribute access fails and nothing is sent
StatusClient ==
    /\ pcM = "client"
    /\ IF req.api
       THEN \E o \in SdkOutcomes, op \in OperationSet :
              /\ apiLog' = Append(apiLog,
                                  Attempt("operations.get", "positional", o))
              /\ IF o = "ok"
                 THEN pcM' = "done" /\ ret' = Returned(op)
                 ELSE pcM' = "status_rest" /\ ret' = ret
       ELSE /\ pcM' = "status_rest"
            /\ UNCHANGED <<ret, apiLog>>
    /\ UNCHANGED <<req, askVars, upVars>>

\* lines 170-175: the REST fallback names httpx, which file_search.py never
\* imports: NameError at line 172, before any request
StatusRest ==
    /\ pcM = "status_rest"
    /\ pcM' = "done"
    /\ ret' = Raised("NameError")
    /\ UNCHANGED <<req, apiLog, askVars, upVars>>

\* lines 178-179: `if not document_path: return None`
LookupEmpty ==
    /\ pcM = "empty"
    /\ pcM' = "done"
    /\ ret' = Returned(MetaNone)
    /\ UNCHANGED <<req, apiLog, askVars, upVars>>

\* lines 181-186: documents_api.get(name=document_path); every exception
\* is passed over
LookupDocuments ==
    /\ pcM = "documents"
    /\ \E o \in {"ok", "Exception"}, d \in {S("D"), None} :
          /\ apiLog' = Append(apiLog, Attempt("documents.get", "name", o))
          /\ IF o = "ok"
             THEN pcM' = "done" /\ ret' = Returned(Meta("obj", d, None, S("u"), None))
             ELSE pcM' = "lookup_rest" /\ ret' = ret
    /\ UNCHANGED <<req, askVars, upVars>>

\* lines 188-192: the REST fallback names httpx, which file_search.py never
\* imports: NameError at line 189, before any request
LookupRest ==
    /\ pcM = "lookup_rest"
    /\ pcM' = "done"
    /\ ret' = Raised("NameError")
    /\ UNCHANGED <<req, apiLog, askVars, upVars>>

ManagerNext ==
    \/ StatusPlaceholder
    \/ StatusByName
    \/ StatusClient
    \/ StatusRest
    \/ LookupEmpty
    \/ LookupDocuments
    \/ LookupRest

InitManager == ManagerStart /\ AskIdle /\ UploadIdle
SpecManager == InitManager /\ [][ManagerNext]_vars

---------------------------------------------------------------------------
(* Properties of get_operation_status and get_document_metadata.           *)

\* the attempts that reached the backend: those that returned and those
\* whose request failed
Requests == { k \in DOMAIN apiLog : apiLog[k].outcome \in {"ok", "Exception"} }

\* C13: one logical backend call makes at most one request to the backend:
\* a status fetch or a metadata lookup whose request failed ends the call
\* with the failure, and no second request follows.
C13_OneAttemptPerCall ==
    /\ Cardinality(Requests) <= 1
    /\ \A k \in DOMAIN apiLog :
           apiLog[k].outcome = "Exception"
               => (/\ k = Len(apiLog)
                   /\ pcM = "done" => ret.kind = "raised")

---------------------------------------------------------------------------
(* Store management: list_stores, get_store, create_store and ensure_store *)
(* of FileSearchManager, and the handlers GET /stores and GET /stores/{id}.*)

\* a store as the backend lists it: the SDK's object or a mapping
Store(shape, name) == [shape |-> shape, name |-> name]

StoreSet == { Store("obj", S("s")), Store("dict", S("t")) }

\* getattr(first_store, "name", None) or first_store.get("name")
StoreName(store) == store.name

\* the stores the backend holds when the call is made
BackendStores == SeqsUpTo(StoreSet, MaxStores)

\* a call: settings.file_search_store, the store_id argument, whether the
\* client has a file_search_stores API (api) and a file_search API with
\* create_store (fsApi), and the backend's stores
StoreCall(name, configured, store_id, api, fsApi, stores) ==
    [name |-> name, configured |-> configured, arg |-> store_id,
     api |-> api, fsApi |-> fsApi, stores |-> stores]

StoreCalls ==
    { StoreCall("ensure_store", c, None, a, f, st) :
        c \in {None, <<>>, S("c")}, a \in BOOLEAN, f \in BOOLEAN,
        st \in BackendStores }
    \cup { StoreCall("GET /stores", None, None, a, FALSE, st) :
             a \in BOOLEAN, st \in BackendStores }
    \cup { StoreCall("GET /stores/{store_id}", None, id, a, FALSE, st) :
             id \in {S("s"), S("z")}, a \in BOOLEAN, st \in BackendStores }

StoreStart ==
    /\ req \in StoreCalls
    /\ pcM = "entry"
    /\ ret = NoRet
    /\ apiLog = <<>>

\* list_stores, lines 34-41: the outcomes of one call, each with the log
\* entries it leaves and the list it returns
list_stores(r) ==
    IF r.api
    THEN { [log |-> <<Attempt("stores.list", "", "ok")>>, value |-> r.stores],
           [log |-> <<Attempt("stores.list", "", "Exception")>>,
            value |-> <<>>] }
    ELSE { [log |-> <<>>, value |-> <<>>] }

\* the store of that name, if the backend has one
Found(r) == { k \in DOMAIN r.stores : r.stores[k].name = r.arg }

\* get_store, lines 55-62: the SDK raises when the store does not exist and
\* when the request fails; None is modelled as Store("none", None)
get_store(r) ==
    IF r.api
    THEN (IF Found(r) # {}
          THEN { [log |-> <<Attempt("stores.get", "name", "ok")>>,
                  value |-> r.stores[CHOOSE k \in Found(r) : TRUE]] }
          ELSE { [log |-> <<Attempt("stores.get", "name", "NotFound")>>,
                  value |-> Store("none", None)] })
         \cup { [log |-> <<Attempt("stores.get", "name", "Exception")>>,
                 value |-> Store("none", None)] }
    ELSE { [log |-> <<>>, value |-> Store("none", None)] }

\* GET /stores, service.py lines 137-144
HandlerListStores ==
    /\ pcM = "entry"
    /\ req.name = "GET /stores"
    /\ \E out \in list_stores(req) :
          /\ apiLog' = apiLog \o out.log
          /\ ret' = Returned([stores |-> out.value])
    /\ pcM' = "done"
    /\ UNCHANGED <<req, askVars, upVars>>

\* GET /stores/{store_id}, service.py lines 163-177
HandlerGetStore ==
    /\ pcM = "entry"
    /\ req.name = "GET /stores/{store_id}"
    /\ \E out \in get_store(req) :
          /\ apiLog' = apiLog \o out.log
          /\ ret' = IF out.value.shape = "none" THEN Raised("HTTP 404")
                    ELSE Returned([store |-> out.value])
    /\ pcM' = "done"
    /\ UNCHANGED <<req, askVars, upVars>>

\* ensure_store, lines 67-68: the configured store id
EnsureConfigured ==
    /\ pcM = "entry"
    /\ req.name = "ensure_store"
    /\ Truthy(req.configured)
    /\ ret' = Returned(req.configured)
    /\ pcM' = "done"
    /\ UNCHANGED <<req, apiLog, askVars, upVars>>

\* ensure_store, lines 71-75: list the stores and return the first one's name
EnsureList ==
    /\ pcM = "entry"
    /\ req.name = "ensure_store"
    /\ ~Truthy(req.configured)
    /\ \E out \in list_stores(req) :
          /\ apiLog' = apiLog \o out.log
          /\ IF out.value # <<>>
             THEN pcM' = "done" /\ ret' = Returned(StoreName(out.value[1]))
             ELSE pcM' = "create" /\ ret' = ret
    /\ UNCHANGED <<req, askVars, upVars>>

\* ensure_store, line 78, and create_store, lines 43-53
EnsureCreate ==
    /\ pcM = "create"
    /\ IF req.api \/ req.fsApi
       THEN \E o \in {"ok", "Exception"} :
              /\ apiLog' = Append(apiLog,
                     Attempt(IF req.api THEN "stores.create"
                             ELSE "file_search.create_store", "", o))
              /\ ret' = IF o = "ok" THEN Returned(S("n"))
                        ELSE Raised("Exception")
       ELSE /\ ret' = Raised("RuntimeError")
            /\ apiLog' = apiLog
    /\ pcM' = "done"
    /\ UNCHANGED <<req, askVars, upVars>>

StoreNext ==
    \/ HandlerListStores
    \/ HandlerGetStore
    \/ EnsureConfigured
    \/ EnsureList
    \/ EnsureCreate

InitStore == StoreStart /\ AskIdle /\ UploadIdle
SpecStore == InitStore /\ [][StoreNext]_vars

---------------------------------------------------------------------------
(* Properties of store management.                                         *)

Creates == { k \in DOMAIN apiLog :
               apiLog[k].api \in {"stores.create", "file_search.create_store"} }

\* C14: a transport failure of listing the stores or of fetching a store
\* ends the request as failed: it is never turned into an empty store list,
\* into "Store not found", or into the creation of a new store.
C14_TransportFailureSurfaced ==
    \A k \in DOMAIN apiLog :
        (apiLog[k].api \in {"stores.list", "stores.get"}
           /\ apiLog[k].outcome = "Exception")
            => (/\ Creates = {}
                /\ pcM = "done" => (ret.kind = "raised" /\ ret.exc # "HTTP 404"))

\* C19: ensure_store returns a configured store id with no backend call;
\* with a non-empty listing it returns the first store's name and creates
\* nothing; it creates a store only when no id is configured and the backend
\* has no store, and at most one per call.  Stated for a client that has the
\* file_search_stores API, which is the one that can list stores.
C19_CreateOnlyWhenNoStore ==
    (req.name = "ensure_store" /\ req.api) =>
        /\ Truthy(req.configured)
              => (apiLog = <<>> /\ (pcM = "done" => ret = Returned(req.configured)))
        /\ Creates # {} => (~Truthy(req.configured) /\ req.stores = <<>>)
        /\ (\E k \in DOMAIN apiLog :
               apiLog[k].api = "stores.list" /\ apiLog[k].outcome = "ok"
                   /\ req.stores # <<>>)
              => (/\ Creates = {}
                  /\ pcM = "done" => ret = Returned(StoreName(req.stores[1])))
        /\ Cardinality(Creates) <= 1

---------------------------------------------------------------------------
(* The operation normalizer of service.py: _coalesce and                   *)
(* _serialize_operation.                                                   *)
(*                                                                         *)
(* A Python value is a record of its type t and its content v: the         *)
(* characters of a str, the digits of an int, the fields of a dict or of   *)
(* an attribute-bearing object.                                            *)

PyNone == [t |-> "NoneType", v |-> <<>>]
PyStr(s) == [t |-> "str", v |-> s]
PyInt(digits) == [t |-> "int", v |-> digits]
PyBool(b) == [t |-> "bool", v |-> IF b THEN S("T") ELSE S("F")]
PyDict(fields) == [t |-> "dict", v |-> fields]
PyObj(fields) == [t |-> "obj", v |-> fields]

\* bool(value)
PyTruthy(value) ==
    CASE value.t = "NoneType" -> FALSE
      [] value.t = "str" -> value.v # <<>>
      [] value.t = "int" -> value.v # S("0")
      [] value.t = "bool" -> value.v = S("T")
      [] value.t = "dict" -> DOMAIN value.v # {}
      [] OTHER -> TRUE

\* a or b
PyOr(a, b) == IF PyTruthy(a) THEN a ELSE b

\* str(value) of a value that is not a str: its printed form
Str(value) == IF value.t = "str" THEN value ELSE PyStr(S("~"))

\* a test of truth where the code tests for None
IsNotNoneNorFalsy(value) == PyTruthy(value)

\* `obj[key] is not None`, `value is not None`
IsNotNone(value) == value.t # "NoneType"

\* `key in obj` for a dict, hasattr(obj, key) for anything else
HasField(obj, key) == obj.t \in {"dict", "obj"} /\ key \in DOMAIN obj.v

\* _coalesce(obj, *keys)
RECURSIVE _coalesce(_, _)
_coalesce(obj, keys) ==
    IF keys = <<>> THEN PyNone
    ELSE IF HasField(obj, Head(keys)) /\ IsNotNone(obj.v[Head(keys)])
         THEN obj.v[Head(keys)]
         ELSE _coalesce(obj, Tail(keys))

\* s with its trailing "/" characters removed
RECURSIVE StripSlashes(_)
StripSlashes(s) ==
    IF s # <<>> /\ s[Len(s)] = "/" THEN StripSlashes(SubSeq(s, 1, Len(s) - 1))
    ELSE s

\* the characters after the last "/"
RECURSIVE LastComponent(_)
LastComponent(s) ==
    IF s = <<>> \/ s[Len(s)] = "/" THEN <<>>
    ELSE Append(LastComponent(SubSeq(s, 1, Len(s) - 1)), s[Len(s)])

\* Path(document_name).name
PathName(s) == LastComponent(StripSlashes(s))

\* operation.get("done") of a dict
DictGet(obj, key) == IF key \in DOMAIN obj.v THEN obj.v[key] ELSE PyNone

\* lines 89-95: error_msg
ErrorMsg(error_obj) ==
    IF ~PyTruthy(error_obj) THEN PyNone
    ELSE IF error_obj.t = "dict"
         THEN PyOr(DictGet(error_obj, "message"), Str(error_obj))
         ELSE Str(error_obj)

\* _serialize_operation(operation, fallback_name): the record it returns, or
\* the TypeError of Path(document_name) for a document_name that is no str
_serialize_operation(operation, fallback_name) ==
    LET resp == _coalesce(operation, <<"response", "result">>)
        document_name ==
            _coalesce(resp, <<"document_name", "documentName", "name">>)
        parent ==
            _coalesce(resp, <<"parent", "file_search_store_name",
                                  "fileSearchStoreName">>)
        display_name ==
            PyOr(_coalesce(resp, <<"display_name", "displayName">>),
                 fallback_name)
        done ==
            \/ PyTruthy(_coalesce(operation, <<"done">>))
            \/ operation.t = "dict" /\ PyTruthy(DictGet(operation, "done"))
        error_msg == ErrorMsg(_coalesce(operation, <<"error">>))
    IN  IF ~PyTruthy(display_name) /\ PyTruthy(document_name)
           /\ document_name.t # "str"
        THEN Raised("TypeError")
        ELSE Returned(
               [operation |-> _coalesce(operation, <<"name">>),
                document_name |-> document_name,
                display_name |->
                    PyOr(PyOr(display_name,
                              IF PyTruthy(document_name)
                              THEN PyStr(PathName(document_name.v))
                              ELSE PyNone),
                         fallback_name),
                store |-> parent,
                done |-> PyBool(done),
                error |-> error_msg])

\* every mapping from some of the keys to the values
FieldMaps(keys, values) == UNION { [K -> values] : K \in SUBSET keys }

\* ---- _coalesce on its own ----

Aliases == {"display_name", "displayName", "name"}

\* a field is null, falsy or a string
FieldValues ==
    { PyNone, PyStr(<<>>), PyInt(S("0")), PyBool(FALSE), PyStr(S("v")),
      PyStr(S("w")) }

CoalesceObjects ==
    { PyNone, PyStr(S("x")) }
    \cup { PyDict(f) : f \in FieldMaps(Aliases, FieldValues) }
    \cup { PyObj(f) : f \in FieldMaps(Aliases, FieldValues) }

CoalesceStart ==
    /\ req \in { [name |-> "_coalesce", obj |-> o, keys |-> ks] :
                   o \in CoalesceObjects, ks \in SeqsUpTo(Aliases, MaxKeys) }
    /\ pcM = "entry"
    /\ ret = NoRet
    /\ apiLog = <<>>

Coalesce ==
    /\ pcM = "entry"
    /\ req.name = "_coalesce"
    /\ ret' = Returned(_coalesce(req.obj, req.keys))
    /\ pcM' = "done"
    /\ UNCHANGED <<req, apiLog, askVars, upVars>>

InitCoalesce == CoalesceStart /\ AskIdle /\ UploadIdle
SpecCoalesce == InitCoalesce /\ [][Coalesce]_vars

\* the positions of the aliases that obj has with a value other than None
Matching(obj, keys) ==
    { i \in DOMAIN keys :
        /\ obj.t \in {"dict", "obj"}
        /\ keys[i] \in DOMAIN obj.v
        /\ obj.v[keys[i]].t # "NoneType" }

\* C17: _coalesce never raises; it returns the value of the first alias, in
\* list order, that the input has with a value other than None, falsy
\* values included as they are, and None when the input is None or has no
\* such alias.
C17_FirstNonNullAlias ==
    (pcM = "done" /\ req.name = "_coalesce") =>
        LET m == Matching(req.obj, req.keys)
        IN  /\ ret.kind = "returned"
            /\ m = {} => ret.value = PyNone
            /\ m # {} =>
                   \E i \in m :
                       /\ \A j \in m : i <= j
                       /\ ret.value = req.obj.v[req.keys[i]]

\* the first alias is null, the second is absent or falsy but not null: the
\* falsy value is returned
C17_Witness ==
    /\ pcM = "done"
    /\ req.name = "_coalesce"
    /\ req.keys = <<"display_name", "displayName">>
    /\ req.obj.t = "obj"
    /\ DOMAIN req.obj.v = {"display_name", "displayName", "name"}
    /\ req.obj.v["display_name"] = PyNone
    /\ req.obj.v["displayName"] = PyStr(<<>>)
    /\ req.obj.v["name"] = PyStr(S("v"))
    /\ ret = Returned(PyStr(<<>>))

\* ---- _serialize_operation on its own ----

\* a field that the input does not have
Abs == [t |-> "absent", v |-> <<>>]

\* the fields of a mapping or object, absent ones left out
Fields(f) == [k \in { x \in DOMAIN f : f[x].t # "absent" } |-> f[k]]

Containers(fs) == { PyDict(f) : f \in fs } \cup { PyObj(f) : f \in fs }

\* the response of an operation: null, a bare string, or a mapping or
\* object whose document name is missing, null, empty, a path or a number
OperationResponses ==
    { PyNone, PyStr(S("x")) }
    \cup Containers(
           { Fields([document_name |-> d, display_name |-> n, parent |-> p]) :
               d \in { Abs, PyNone, PyStr(<<>>), PyStr(<<"d", "/", "x">>),
                       PyInt(S("7")) },
               n \in { Abs, PyStr(S("n")) },
               p \in { Abs, PyStr(S("p")) } })

ErrorObjects ==
    { Abs, PyNone, PyStr(S("e")), PyDict(<<>>),
      PyDict([message |-> PyStr(S("m"))]), PyDict([code |-> PyInt(S("8"))]),
      PyObj([code |-> PyInt(S("8"))]) }

\* raw operations: None, or a mapping or object with any of its fields
\* missing, null or of another type than expected
RawOperations ==
    { PyNone }
    \cup Containers(
           { Fields([response |-> r, done |-> d, error |-> e, name |-> n]) :
               r \in {Abs} \cup OperationResponses,
               d \in { Abs, PyNone, PyBool(TRUE), PyBool(FALSE), PyStr(S("y")) },
               e \in ErrorObjects,
               n \in { Abs, PyStr(S("o")) } })
    \cup Containers({ Fields([result |-> r]) : r \in OperationResponses })

SerializeStart ==
    /\ req \in { [name |-> "_serialize_operation", operation |-> o,
                  fallback_name |-> f] :
                   o \in RawOperations, f \in { PyNone, PyStr(S("f")) } }
    /\ pcM = "entry"
    /\ ret = NoRet
    /\ apiLog = <<>>

Serialize ==
    /\ pcM = "entry"
    /\ req.name = "_serialize_operation"
    /\ ret' = _serialize_operation(req.operation, req.fallback_name)
    /\ pcM' = "done"
    /\ UNCHANGED <<req, apiLog, askVars, upVars>>

InitSerialize == SerializeStart /\ AskIdle /\ UploadIdle
SpecSerialize == InitSerialize /\ [][Serialize]_vars

\* C16: _serialize_operation is total: for every raw operation, of either
\* shape and with any fields missing, null or of an unexpected type, it
\* returns a record and never raises; done is a boolean, and a field that
\* cannot be resolved is None (done is False).
C16_SerializeIsTotal ==
    (pcM = "done" /\ req.name = "_serialize_operation") =>
        /\ ret.kind = "returned"
        /\ ret.value.done.t = "bool"
        /\ Matching(req.operation, <<"name">>) = {}
               => ret.value.operation = PyNone
        /\ Matching(req.operation, <<"response", "result">>) = {}
               => (ret.value.document_name = PyNone /\ ret.value.store = PyNone)
        /\ Matching(req.operation, <<"done">>) = {}
               => ret.value.done = PyBool(FALSE)
        /\ Matching(req.operation, <<"error">>) = {}
               => ret.value.error = PyNone

---------------------------------------------------------------------------
(* upload_files from its first statement, with the display_names argument. *)

\* display_names: None, or a list of that many names
Names(k) == [t |-> "list", v |-> [i \in 1..k |-> PyStr(S("n"))]]

DisplayNames == { PyNone } \cup { Names(k) : k \in 0..(MaxDocs + 1) }

\* `if display_names` of None or a list
NamesGiven(display_names) ==
    display_names.t = "list" /\ display_names.v # <<>>

\* a check that lets a list longer than paths through
NamesTooFew(display_names, n) ==
    NamesGiven(display_names) /\ Len(display_names.v) < n

\* line 105: display_names and len(display_list) != len(paths_list)
NamesMismatch(display_names, n) ==
    NamesGiven(display_names) /\ Len(display_names.v) # n

UploadArgsStart ==
    /\ nDocs \in 1..MaxDocs
    /\ wait \in BOOLEAN
    /\ pcU = "args"
    /\ docIdx = 1
    /\ backend = [i \in 1..nDocs |-> Absent]
    /\ uploaded = <<>>
    /\ current = NoOp
    /\ fetches = [i \in 1..nDocs |-> 0]
    /\ slept = [i \in 1..nDocs |-> 0]
    /\ notDone = [i \in 1..nDocs |-> 0]
    /\ terminal = [i \in 1..nDocs |-> "none"]
    /\ cancelled = FALSE
    /\ req \in { [name |-> "upload_files", display_names |-> d] :
                   d \in DisplayNames }
    /\ pcM = "idle"
    /\ ret = NoRet
    /\ apiLog = <<>>

\* lines 100-106 pass: go on to the loop over the paths
UploadArgsOk ==
    /\ pcU = "args"
    /\ ~NamesMismatch(req.display_names, nDocs)
    /\ pcU' = "upload"
    /\ UNCHANGED <<nDocs, wait, docIdx, backend, uploaded, current, fetches,
                   slept, notDone, terminal, cancelled>>
    /\ UNCHANGED <<askVars, mgrVars>>

\* lines 105-106: raise ValueError("display_names length must match ...")
UploadArgsMismatch ==
    /\ pcU = "args"
    /\ NamesMismatch(req.display_names, nDocs)
    /\ pcU' = "raised"
    /\ UNCHANGED <<nDocs, wait, docIdx, backend, uploaded, current, fetches,
                   slept, notDone, terminal, cancelled>>
    /\ UNCHANGED <<askVars, mgrVars>>

UploadArgsNext ==
    UploadArgsOk \/ UploadArgsMismatch \/ UploadStep \/ BackendFinish

InitUploadArgs == UploadArgsStart /\ AskIdle
SpecUploadArgs == InitUploadArgs /\ [][UploadArgsNext]_vars

---------------------------------------------------------------------------
(* Properties of upload_files.                                             *)

Polling == pcU \in {"check", "sleep", "fetch", "verify"}

Issued(i) == backend[i].status # "absent"

\* uploads go in input order and all come before the first poll; a normal
\* return with wait has one operation per path, in input order, each
\* observed done
UploadsThenPolls ==
    /\ pcU = "upload"
          => (/\ Len(uploaded) = docIdx - 1
              /\ \A i \in Docs : Issued(i) <=> i < docIdx)
    /\ Polling => (Len(uploaded) = nDocs /\ \A i \in Docs : Issued(i))
    /\ pcU = "returned"
          => (/\ Len(uploaded) = nDocs
              /\ wait => \A i \in Docs :
                             /\ uploaded[i].done
                             /\ terminal[i] = "completed"
                             /\ backend[i].status = "done"
                             /\ uploaded[i].error = backend[i].error)

NothingUploaded ==
    /\ pcU \in {"args", "raised"}
    /\ uploaded = <<>>
    /\ \A i \in Docs : ~Issued(i)

=============================================================================
